---- MODULE Spec2Model ----
(***************************************************************************)
(* Model of ss_overlay.py: the layout of a secondary structure overlay     *)
(* (class secondary_structure_overlay) and the reader of stride 'LOC'      *)
(* records (read_secondary_structure_assignment).                          *)
(*                                                                         *)
(* Python lists are sequences; Python's 0-based indices are 1-based here,  *)
(* so a segment record [class, aa, start, aa, end] has its class at [1],   *)
(* its start at [3] and its end at [5]. Strings that the code inspects     *)
(* character by character are sequences of one-character strings.          *)
(***************************************************************************)
EXTENDS Integers, Sequences, FiniteSets, TLC

\* Residue numbers of the tracks are 1..MaxRes; segment bounds are 1..MaxRes+1.
MaxRes == 3
\* Longest segment list handed to the overlay.
MaxSegs == 2
\* Longest stride file, in lines.
MaxLines == 2

VARIABLES
  residue_numbers,                  \* self.residue_numbers
  ss_segment_list,                  \* self.ss_segment_list
  residues_without_ss_assignment,   \* the local list of the same name
  patches,                          \* the patches added to self.ax, in order
  patch_origin,                     \* history: for each patch, the segment index
                                    \* (0: the final loop) and the residue it is for
  x,                                \* index of the segment loop (1-based)
  pc,                               \* "segments", "done", "error"; "idle" in SpecParse
  stride_lines,                     \* the lines of the stride file
  secondary_structure_summary,      \* the value returned by the reader
  rpc                               \* "start", "returned", "error"; "idle" in Spec

vars == <<residue_numbers, ss_segment_list, residues_without_ss_assignment,
          patches, patch_origin, x, pc,
          stride_lines, secondary_structure_summary, rpc>>

layout_vars == <<residue_numbers, ss_segment_list, residues_without_ss_assignment,
                 patches, patch_origin, x, pc>>

parse_vars == <<stride_lines, secondary_structure_summary, rpc>>

----------------------------------------------------------------------------
(* Helpers on sequences *)

Range(s) == {s[i] : i \in 1..Len(s)}

\* All sequences over S of length at most n.
SeqsUpTo(S, n) == UNION {[1..k -> S] : k \in 0..n}

\* list.remove(v) when v is in the list: the first occurrence is dropped.
ListRemove(list, v) ==
  LET i == CHOOSE k \in 1..Len(list) :
             list[k] = v /\ \A j \in 1..(k-1) : list[j] # v
  IN  [j \in 1..(Len(list)-1) |-> IF j < i THEN list[j] ELSE list[j+1]]

\* list.remove(y) for y = from, from+1, ..., to-1. The loop stops at the first
\* y that is not in the list (ValueError); what was removed before stays removed.
RECURSIVE RemoveLoop(_, _, _)
RemoveLoop(list, from, to) ==
  IF from >= to THEN [ok |-> TRUE, list |-> list]
  ELSE IF from \notin Range(list) THEN [ok |-> FALSE, list |-> list]
  ELSE RemoveLoop(ListRemove(list, from), from + 1, to)

\* Mutant: the removal starts one residue late.
RemoveRange_SkipsStart(list, start, end) == RemoveLoop(list, start + 1, end)

\* for y in range(start, end): residues_without_ss_assignment.remove(y)
RemoveRange(list, start, end) == RemoveLoop(list, start, end)

----------------------------------------------------------------------------
(* The patches *)

\* Mutant: the rectangle starts at `start`, not one unit to its left.
add_rectangle_patch_NoOffset(start, length) ==
  [kind |-> "Rectangle", x |-> start, width |-> length]

\* mpatches.Rectangle((start-1, y), length, ...): a connector at `start`.
add_rectangle_patch(start, length) ==
  [kind |-> "Rectangle", x |-> start - 1, width |-> length]

\* Mutant: the arrow is one unit longer and reaches strand_end.
add_strand_patch_LongArrow(strand_start, strand_end) ==
  << [kind |-> "FancyArrow", x |-> strand_start - 1,
      dx |-> strand_end - strand_start + 1],
     [kind |-> "Rectangle", x |-> strand_end - 1, width |-> 1] >>

\* mpatches.FancyArrow(strand_start-1, y, strand_end - strand_start, 0, ...),
\* then the connector at strand_end.
add_strand_patch(strand_start, strand_end) ==
  << [kind |-> "FancyArrow", x |-> strand_start - 1,
      dx |-> strand_end - strand_start],
     add_rectangle_patch(strand_end, 1) >>

\* Number of values of np.arange(helix_start-1, helix_end-1, 0.75):
\* the k >= 0 with 0.75*k < helix_end - helix_start.
NoArcs(helix_start, helix_end) ==
  IF helix_end <= helix_start THEN 0
  ELSE (4 * (helix_end - helix_start) + 2) \div 3

\* The arcs of a helix. Lengths are in quarters of a chart unit: the k-th arc
\* (k from 0) has its origin at t_start + 0.25 with t_start = helix_start-1 + 0.75k,
\* and sweeps theta1 = 180k - 1 to theta2 = 180(k+1) + 1.
HelixArcs(helix_start, helix_end) ==
  [k \in 1..NoArcs(helix_start, helix_end) |->
     [kind |-> "Arc", origin4 |-> 4 * (helix_start - 1) + 3 * (k - 1) + 1,
      theta1 |-> 180 * (k - 1) - 1, theta2 |-> 180 * k + 1]]

\* Mutant: <= for <, so that a helix ending at the last residue has a connector.
HelixConnector_AtLast(helix_end, last) ==
  IF helix_end <= last
  THEN << [kind |-> "Rectangle", x |-> helix_end - 1, width |-> 1] >> ELSE << >>

\* if helix_end < int(self.residue_numbers[-1]): the connector at helix_end.
HelixConnector(helix_end, last) ==
  IF helix_end < last THEN << add_rectangle_patch(helix_end, 1) >> ELSE << >>

\* add_helix_patch on a non-empty residue list whose last element is `last`.
add_helix_patch(helix_start, helix_end, last) ==
  HelixArcs(helix_start, helix_end) \o HelixConnector(helix_end, last)

\* Mutant: no special case for the first residue.
UnassignedStart_NoShift(r, first) == r

\* The position of the connector of an unassigned residue r: one to the right
\* when r is the first residue of the track.
UnassignedStart(r, first) == IF r = first THEN r + 1 ELSE r

\* The final loop: one connector per element left in the list.
UnassignedPatches(remaining, track) ==
  [i \in 1..Len(remaining) |->
     add_rectangle_patch(UnassignedStart(remaining[i], track[1]), 1)]

\* Mutant: new patches are put in front of the earlier ones.
ax_add_patches_Prepend(current, new) == new \o current

\* self.ax.add_patch, once per new patch: the axes keep patches in call order.
ax_add_patches(current, new) == current \o new

----------------------------------------------------------------------------
(* The inputs of the overlay *)

Residues == 1..MaxRes

\* Ascending tracks without repeats (gaps allowed), the empty track included.
RECURSIVE Ascending(_)
Ascending(S) ==
  IF S = {} THEN << >>
  ELSE LET m == CHOOSE v \in S : \A w \in S : v <= w
       IN  << m >> \o Ascending(S \ {m})

\* Tracks a caller may also pass: repeated and unordered residue numbers.
IrregularTracks == { <<1, 1, 2>>, <<2, 2, 3>>, <<2, 1>>, <<3, 1, 2>> }

Tracks == {Ascending(S) : S \in SUBSET Residues} \cup IrregularTracks

\* Segment records as the reader returns them; start <= end as stride writes them.
Segments ==
  { <<c, "GLY", s, "LYS", e>> :
      c \in {"Strand", "AlphaHelix"}, s \in 1..(MaxRes+1), e \in 1..(MaxRes+1) }
  \cup { <<"Turn", "GLY", 1, "LYS", 2>> }

ValidSegments == {g \in Segments : g[3] <= g[5]}

SegmentLists == SeqsUpTo(ValidSegments, MaxSegs)

----------------------------------------------------------------------------
(* secondary_structure_overlay.find_ss_segments_and_generate_overlay *)

Init ==
  /\ residue_numbers \in Tracks
  /\ ss_segment_list \in SegmentLists
  /\ residues_without_ss_assignment = residue_numbers
  /\ patches = << >>
  /\ patch_origin = << >>
  /\ x = 1
  /\ pc = "segments"
  /\ stride_lines = << >>
  /\ secondary_structure_summary = << >>
  /\ rpc = "idle"

Origins(n, seg, res) == [i \in 1..n |-> [seg |-> seg, res |-> res]]

\* Mutant: the removal loop gives up silently on a residue that is not in the
\* list, and the layout goes on.
RemoveSegmentResidues_Lenient(seg) ==
  /\ residues_without_ss_assignment' =
       RemoveLoop(residues_without_ss_assignment, seg[3], seg[5]).list
  /\ pc' = "segments"
  /\ x' = x + 1

\* The removal loop that follows either patch.
RemoveSegmentResidues(seg) ==
  LET r == RemoveRange(residues_without_ss_assignment, seg[3], seg[5])
  IN  /\ residues_without_ss_assignment' = r.list
      /\ pc' = IF r.ok THEN "segments" ELSE "error"
      /\ x' = IF r.ok THEN x + 1 ELSE x

StrandStep ==
  /\ pc = "segments"
  /\ x <= Len(ss_segment_list)
  /\ ss_segment_list[x][1] = "Strand"
  /\ LET seg == ss_segment_list[x]
         new == add_strand_patch(seg[3], seg[5])
     IN  /\ patches' = ax_add_patches(patches, new)
         /\ patch_origin' = patch_origin \o Origins(Len(new), x, seg[5])
         /\ RemoveSegmentResidues(seg)
  /\ UNCHANGED <<residue_numbers, ss_segment_list, parse_vars>>

\* On an empty residue list self.residue_numbers[-1] raises after the arcs
\* were added.
HelixStep ==
  /\ pc = "segments"
  /\ x <= Len(ss_segment_list)
  /\ ss_segment_list[x][1] = "AlphaHelix"
  /\ LET seg == ss_segment_list[x]
     IN  IF residue_numbers = << >>
         THEN LET new == HelixArcs(seg[3], seg[5])
              IN  /\ patches' = ax_add_patches(patches, new)
                  /\ patch_origin' = patch_origin \o Origins(Len(new), x, seg[5])
                  /\ pc' = "error"
                  /\ UNCHANGED <<residues_without_ss_assignment, x>>
         ELSE LET new == add_helix_patch(seg[3], seg[5],
                                         residue_numbers[Len(residue_numbers)])
              IN  /\ patches' = ax_add_patches(patches, new)
                  /\ patch_origin' = patch_origin \o Origins(Len(new), x, seg[5])
                  /\ RemoveSegmentResidues(seg)
  /\ UNCHANGED <<residue_numbers, ss_segment_list, parse_vars>>

OtherStep ==
  /\ pc = "segments"
  /\ x <= Len(ss_segment_list)
  /\ ss_segment_list[x][1] \notin {"Strand", "AlphaHelix"}
  /\ x' = x + 1
  /\ UNCHANGED <<residue_numbers, ss_segment_list, residues_without_ss_assignment,
                 patches, patch_origin, pc, parse_vars>>

UnassignedStep ==
  /\ pc = "segments"
  /\ x > Len(ss_segment_list)
  /\ LET rem == residues_without_ss_assignment
     IN  /\ patches' = ax_add_patches(patches, UnassignedPatches(rem, residue_numbers))
         /\ patch_origin' = patch_origin \o
              [i \in 1..Len(rem) |-> [seg |-> 0, res |-> rem[i]]]
  /\ pc' = "done"
  /\ UNCHANGED <<residue_numbers, ss_segment_list, residues_without_ss_assignment,
                 x, parse_vars>>

Next == StrandStep \/ HelixStep \/ OtherStep \/ UnassignedStep

Spec == Init /\ [][Next]_vars


----------------------------------------------------------------------------
(* read_secondary_structure_assignment: strings are sequences of characters *)

Str_LOC == <<"L", "O", "C">>
Str_Dash == <<"-">>
Str_Tilde == <<"~">>
Str_ChainA == <<" ", "A", " ">>
Str_ChainB == <<" ", "B", " ">>

DigitValue ==
  [c \in {"0", "1", "2", "3", "4", "5", "6", "7", "8", "9"} |->
     CASE c = "0" -> 0 [] c = "1" -> 1 [] c = "2" -> 2 [] c = "3" -> 3
       [] c = "4" -> 4 [] c = "5" -> 5 [] c = "6" -> 6 [] c = "7" -> 7
       [] c = "8" -> 8 [] c = "9" -> 9]

StartsWith(s, prefix) ==
  Len(s) >= Len(prefix) /\ SubSeq(s, 1, Len(prefix)) = prefix

\* Mutant: 'LOC' in the line's first eight characters, not at its start.
IsLocLine_Anywhere(line) ==
  \E i \in 1..6 : i + 2 <= Len(line) /\ SubSeq(line, i, i + 2) = <<"L", "O", "C">>

\* stride_lines[x][:3] == 'LOC'
IsLocLine(line) == SubSeq(line, 1, IF Len(line) < 3 THEN Len(line) ELSE 3) = Str_LOC

\* s.replace(old, ""): the occurrences of old are dropped from left to right,
\* without overlap.
RECURSIVE StrReplaceWithEmpty(_, _)
StrReplaceWithEmpty(s, old) ==
  IF Len(s) < Len(old) THEN s
  ELSE IF StartsWith(s, old)
       THEN StrReplaceWithEmpty(SubSeq(s, Len(old) + 1, Len(s)), old)
       ELSE << Head(s) >> \o StrReplaceWithEmpty(Tail(s), old)

\* .replace("-","").replace("LOC","").replace("~","").replace(" A ","").replace(" B ","")
StripNoise(line) ==
  StrReplaceWithEmpty(
    StrReplaceWithEmpty(
      StrReplaceWithEmpty(
        StrReplaceWithEmpty(
          StrReplaceWithEmpty(line, Str_Dash), Str_LOC), Str_Tilde), Str_ChainA), Str_ChainB)

\* s.split(" "): one field per space, plus one; fields can be empty.
RECURSIVE StrSplitOnSpace(_, _)
StrSplitOnSpace(s, field) ==
  IF s = << >> THEN << field >>
  ELSE IF Head(s) = " " THEN << field >> \o StrSplitOnSpace(Tail(s), << >>)
  ELSE StrSplitOnSpace(Tail(s), Append(field, Head(s)))

\* while "" in list: list.remove("")
RECURSIVE DropEmptyStrings(_)
DropEmptyStrings(list) ==
  IF << >> \in Range(list) THEN DropEmptyStrings(ListRemove(list, << >>)) ELSE list

\* int(token) for a token of letters, digits and no blank: the value of a token
\* of digits, ValueError (ok = FALSE) for any other.
RECURSIVE DigitsValue(_, _)
DigitsValue(token, acc) ==
  IF token = << >> THEN acc
  ELSE DigitsValue(Tail(token), 10 * acc + DigitValue[Head(token)])

ParseInt(token) ==
  IF token # << >> /\ \A i \in 1..Len(token) : token[i] \in DOMAIN DigitValue
  THEN [ok |-> TRUE, value |-> DigitsValue(token, 0)]
  ELSE [ok |-> FALSE, value |-> 0]

\* The body of the second loop for one line: the record, or an error
\* (IndexError on a missing token 2 or 4, ValueError from int).
InterpretLine(line) ==
  LET tokens == DropEmptyStrings(StrSplitOnSpace(StripNoise(line), << >>))
  IN  IF Len(tokens) < 3 \/ ~ParseInt(tokens[3]).ok THEN [ok |-> FALSE, record |-> << >>]
      ELSE IF Len(tokens) < 5 \/ ~ParseInt(tokens[5]).ok
           THEN [ok |-> FALSE, record |-> << >>]
           ELSE [ok |-> TRUE,
                 record |-> [tokens EXCEPT ![3] = ParseInt(tokens[3]).value,
                                           ![5] = ParseInt(tokens[5]).value]]

\* The first loop: the lines that start with LOC, in file order.
LocLines(lines) == SelectSeq(lines, IsLocLine)

----------------------------------------------------------------------------
(* The stride files *)

\* LOC records are built from columns; a column set holds the variants of the
\* column that the files contain.
ClassColumn == { <<" ", " ", "A", "l", "p", "h", "a", "H", "e", "l", "i", "x">> }
FirstResidueColumn == { <<" ", "G", "L", "U">> }
FirstNumberColumn == { <<" ", " ", " ", " ", "7", "9">>, <<" ", " ", " ", " ", "7", "x">> }
FirstChainColumn == { <<" ", "A", " ", " ", " ", " ", " ", " ">>, <<" ", "-", " ", " ", " ", " ", " ", " ">>, <<" ", "A", " ">> }
LastResidueColumn == { <<"M", "E", "T">> }
LastNumberColumn == { <<" ", " ", " ", "9", "9">>, << >> }
LastChainColumn == { <<" ", "A", " ", " ", " ">>, <<" ", "A", " ", " ", " ", "~", "~", "~", "~">>, <<" ", "A", " ", " ", "1", "U", "N", "Q">> }

LocRecords ==
  { Str_LOC \o c \o r1 \o n1 \o c1 \o r2 \o n2 \o c2 :
      c \in ClassColumn, r1 \in FirstResidueColumn, n1 \in FirstNumberColumn,
      c1 \in FirstChainColumn, r2 \in LastResidueColumn, n2 \in LastNumberColumn,
      c2 \in LastChainColumn }

\* A strand record with blank chains, and lines that are no LOC record: a
\* remark, an empty line, a line of two characters, a detailed assignment
\* line that mentions LOC after its first column.
OtherLines ==
  { <<"L", "O", "C", " ", " ", "S", "t", "r", "a", "n", "d", " ", "G", "L", "Y", " ", "2", " ", "-", " ", "L", "Y", "S", " ", "5", " ", "-">>,
    <<"R", "E", "M", " ", " ", "L", "O", "C">>,
    << >>,
    <<"L", "O">>,
    <<"A", "S", "G", " ", "L", "O", "C", " ", "G", "L", "Y", " ", "2", " ", "-", " ", "L", "Y", "S", " ", "5", " ", "-">> }

StrideLines == LocRecords \cup OtherLines

StrideFiles == SeqsUpTo(StrideLines, MaxLines)

InitParse ==
  /\ stride_lines \in StrideFiles
  /\ secondary_structure_summary = << >>
  /\ rpc = "start"
  /\ residue_numbers = << >>
  /\ ss_segment_list = << >>
  /\ residues_without_ss_assignment = << >>
  /\ patches = << >>
  /\ patch_origin = << >>
  /\ x = 1
  /\ pc = "idle"

\* The whole function: it returns the list of records, or raises at the first
\* line that cannot be interpreted and returns nothing.
ReadReturns ==
  /\ rpc = "start"
  /\ LET LOC_lines == LocLines(stride_lines)
     IN  /\ \A n \in 1..Len(LOC_lines) : InterpretLine(LOC_lines[n]).ok
         /\ secondary_structure_summary' =
              [n \in 1..Len(LOC_lines) |-> InterpretLine(LOC_lines[n]).record]
  /\ rpc' = "returned"
  /\ UNCHANGED <<stride_lines, layout_vars>>

ReadRaises ==
  /\ rpc = "start"
  /\ \E n \in 1..Len(LocLines(stride_lines)) :
       ~InterpretLine(LocLines(stride_lines)[n]).ok
  /\ rpc' = "error"
  /\ UNCHANGED <<stride_lines, secondary_structure_summary, layout_vars>>

NextParse == ReadReturns \/ ReadRaises

SpecParse == InitParse /\ [][NextParse]_vars

----------------------------------------------------------------------------
(* Vocabulary of the properties of the overlay *)

Recognized(seg) == seg[1] \in {"Strand", "AlphaHelix"}

SegIndices == 1..Len(ss_segment_list)

NoRepeats(s) == \A i, j \in 1..Len(s) : s[i] = s[j] => i = j

\* The patches that are connectors placed at residue r, that is the calls
\* add_rectangle_patch(r, ...).
ConnectorsAt(r) ==
  {i \in 1..Len(patches) : patches[i].kind = "Rectangle" /\ patches[i].x + 1 = r}

\* The patches added while segment k was processed, and those of the final loop.
PatchesOf(k) == {i \in 1..Len(patches) : patch_origin[i].seg = k}

LayoutCompleted == pc = "done"

InsideTrack(seg) ==
  seg[3] \in Range(residue_numbers) /\ seg[5] \in Range(residue_numbers)

\* The inputs the overlay is written for: a track without repeated residue
\* numbers and segments of at least two residues that lie inside the track.
PlainInput ==
  /\ NoRepeats(residue_numbers)
  /\ \A k \in SegIndices :
       ss_segment_list[k][3] < ss_segment_list[k][5] /\ InsideTrack(ss_segment_list[k])

----------------------------------------------------------------------------
(* C1 *)

\* C1 as stated, on plain inputs: when the layout completes, no connector is
\* placed at a residue r with start <= r < end of a Strand or AlphaHelix segment.
C1_NoConnectorInsideSegment ==
  (LayoutCompleted /\ PlainInput) =>
    \A k \in SegIndices :
      Recognized(ss_segment_list[k]) =>
        \A r \in ss_segment_list[k][3]..(ss_segment_list[k][5] - 1) :
          ConnectorsAt(r) = {}

\* C1, amended: when the layout completes on a track without repeated residue
\* numbers, no residue r with start <= r < end of a Strand or AlphaHelix segment
\* is left in the uncovered list, and no connector of the final loop is emitted
\* for such a residue. (Connectors placed at such an r are the shifted connector
\* of the first residue or the trailing connector of another segment.)
C1_NoUnassignedConnectorForCoveredResidue ==
  (LayoutCompleted /\ NoRepeats(residue_numbers)) =>
    \A k \in SegIndices :
      Recognized(ss_segment_list[k]) =>
        \A r \in ss_segment_list[k][3]..(ss_segment_list[k][5] - 1) :
          /\ r \notin Range(residues_without_ss_assignment)
          /\ \A i \in ConnectorsAt(r) :
               \/ patch_origin[i].seg # 0
               \/ /\ patch_origin[i].res = residue_numbers[1]
                  /\ r = residue_numbers[1] + 1
          /\ \A i \in PatchesOf(0) : patch_origin[i].res # r

\* A completed layout with a strand 2..3 after an unassigned first residue 1:
\* the shifted connector of residue 1 lands on residue 2 of the strand.
C1_Witness ==
  /\ LayoutCompleted
  /\ residue_numbers = <<1, 2, 3>>
  /\ ss_segment_list = << <<"Strand", "GLY", 2, "LYS", 3>> >>
  /\ residues_without_ss_assignment = <<1, 3>>
  /\ ConnectorsAt(2) # {}

----------------------------------------------------------------------------
(* C2 *)

IsHelixAtTrackEnd(seg) ==
  /\ seg[1] = "AlphaHelix"
  /\ residue_numbers # << >>
  /\ seg[5] = residue_numbers[Len(residue_numbers)]

\* C2 as stated, on plain inputs: when the layout completes, the end residue of
\* every Strand or AlphaHelix segment has exactly one connector in the whole
\* output, except for an AlphaHelix whose end is the last residue of the track.
C2_EndHasExactlyOneConnector ==
  (LayoutCompleted /\ PlainInput) =>
    \A k \in SegIndices :
      (Recognized(ss_segment_list[k]) /\ ~IsHelixAtTrackEnd(ss_segment_list[k])) =>
        Cardinality(ConnectorsAt(ss_segment_list[k][5])) = 1

----------------------------------------------------------------------------
(* C3 *)

SegmentTurn == pc = "segments" /\ x <= Len(ss_segment_list)

RemovedRange(seg) == seg[3]..(seg[5] - 1)

----------------------------------------------------------------------------
(* C4 *)

Count(s, v) == Cardinality({i \in 1..Len(s) : s[i] = v})

\* a is b with some elements dropped, the others in their order.
RECURSIVE IsSubseq(_, _)
IsSubseq(a, b) ==
  IF a = << >> THEN TRUE
  ELSE IF b = << >> THEN FALSE
  ELSE IF Head(a) = Head(b) THEN IsSubseq(Tail(a), Tail(b))
  ELSE IsSubseq(a, Tail(b))

StrandTurn == SegmentTurn /\ ss_segment_list[x][1] = "Strand"

\* The arrow added in the step that processes a strand.
NewArrow == patches'[Len(patches) + 1]

\* The step removed exactly the residues from..to-1, once each.
RemovedExactly(from, to) ==
  /\ IsSubseq(residues_without_ss_assignment', residues_without_ss_assignment)
  /\ \A v \in 0..(MaxRes + 2) :
       Count(residues_without_ss_assignment', v) =
         Count(residues_without_ss_assignment, v)
           - (IF v \in from..(to - 1) THEN 1 ELSE 0)

\* C4 as stated, on plain inputs: the arrow of a strand (start, end) begins at
\* start-1 and its head ends at end, and the residues removed for it are
\* start..end-1.
C4_ArrowEndsAtEnd ==
  [][ (StrandTurn /\ PlainInput) =>
        LET seg == ss_segment_list[x] IN
          /\ NewArrow.kind = "FancyArrow"
          /\ NewArrow.x = seg[3] - 1
          /\ NewArrow.x + NewArrow.dx = seg[5]
          /\ pc' # "error" => RemovedExactly(seg[3], seg[5]) ]_vars

\* C4, amended: the arrow of a strand (start, end) begins at start-1 and its
\* head ends at end-1 (track 1..10, strand 2..5: the arrow runs from 1 to 4,
\* and the trailing connector from 4 to 5); when the removal does not abort,
\* the residues removed for the segment are exactly start..end-1.
C4_ArrowEndsBeforeEnd ==
  [][ StrandTurn =>
        LET seg == ss_segment_list[x] IN
          /\ Len(patches') = Len(patches) + 2
          /\ NewArrow.kind = "FancyArrow"
          /\ NewArrow.x = seg[3] - 1
          /\ NewArrow.x + NewArrow.dx = seg[5] - 1
          /\ pc' # "error" => RemovedExactly(seg[3], seg[5]) ]_vars

\* Strand 1..3 processed on track 1, 2, 3: the arrow runs from 0 to 2 and the
\* residues 1 and 2 are removed.
C4_Witness ==
  /\ pc = "segments"
  /\ x = 2
  /\ residue_numbers = <<1, 2, 3>>
  /\ ss_segment_list = << <<"Strand", "GLY", 1, "LYS", 3>> >>
  /\ residues_without_ss_assignment = <<3>>
  /\ patches[1] = [kind |-> "FancyArrow", x |-> 0, dx |-> 2]

----------------------------------------------------------------------------
(* C5 *)

GapFreeAscending(track) ==
  /\ track # << >>
  /\ \A i \in 1..Len(track) : track[i] = track[1] + i - 1

\* An ascending, gap-free track with pairwise non-overlapping strands inside it.
StrandsOnGapFreeTrack ==
  /\ GapFreeAscending(residue_numbers)
  /\ \A k \in SegIndices :
       ss_segment_list[k][1] = "Strand" /\ InsideTrack(ss_segment_list[k])
  /\ \A j, k \in SegIndices :
       j # k => (ss_segment_list[j][3]..ss_segment_list[j][5])
                  \cap (ss_segment_list[k][3]..ss_segment_list[k][5]) = {}

\* Patch p covers the unit interval [r-1, r]. An arrow spans [x, x + dx], a
\* connector [x, x + width].
Covers(p, r) ==
  \/ p.kind = "FancyArrow" /\ p.x < r /\ r <= p.x + p.dx
  \/ p.kind = "Rectangle" /\ p.x < r /\ r <= p.x + p.width

CoveringPatches(r) == {i \in 1..Len(patches) : Covers(patches[i], r)}

UnitsAfterFirst ==
  (residue_numbers[1] + 1)..residue_numbers[Len(residue_numbers)]

\* C5 as stated: on such inputs every unit interval [r-1, r] of a residue r
\* after the first is covered by exactly one primitive.
C5_NoGapsNoOverlaps ==
  (LayoutCompleted /\ StrandsOnGapFreeTrack) =>
    \A r \in UnitsAfterFirst : Cardinality(CoveringPatches(r)) = 1

\* C5, amended: on such inputs every unit interval [r-1, r] of a residue r after
\* the first is covered by at least one primitive (no gaps); a unit interval
\* can be covered by more than one.
C5_NoGaps ==
  (LayoutCompleted /\ StrandsOnGapFreeTrack) =>
    \A r \in UnitsAfterFirst : CoveringPatches(r) # {}

\* Track 1, 2, 3 with the strand 2..3: the arrow covers [1, 2], the trailing
\* connector and the connector of residue 3 both cover [2, 3].
C5_Witness ==
  /\ LayoutCompleted
  /\ StrandsOnGapFreeTrack
  /\ residue_numbers = <<1, 2, 3>>
  /\ ss_segment_list = << <<"Strand", "GLY", 2, "LYS", 3>> >>
  /\ Cardinality(CoveringPatches(3)) = 2

----------------------------------------------------------------------------
(* C6 *)

\* C6: when no segment is a Strand or an AlphaHelix, a completed layout has
\* removed nothing and holds exactly one connector of length 1 per element of
\* the track, in track order, placed at residue+1 for a residue equal to the
\* first residue of the track and at the residue itself otherwise.
C6_OnlyConnectors ==
  (LayoutCompleted /\ \A k \in SegIndices : ~Recognized(ss_segment_list[k])) =>
    /\ residues_without_ss_assignment = residue_numbers
    /\ Len(patches) = Len(residue_numbers)
    /\ \A i \in 1..Len(patches) :
         /\ patches[i].kind = "Rectangle"
         /\ patches[i].width = 1
         /\ patches[i].x + 1 =
              IF residue_numbers[i] = residue_numbers[1]
              THEN residue_numbers[i] + 1 ELSE residue_numbers[i]

\* A completed layout of track 1, 1, 2 with one Turn record: both residues 1
\* have their connector at 2.
C6_Witness ==
  /\ LayoutCompleted
  /\ residue_numbers = <<1, 1, 2>>
  /\ Len(ss_segment_list) = 1
  /\ ss_segment_list[1][1] = "Turn"
  /\ Len(patches) = 3
  /\ ConnectorsAt(2) = {1, 2, 3}

----------------------------------------------------------------------------
(* C9 *)

\* The arrow or the arcs added for segment k, and the connectors added with them.
PrimitivesOf(k) == {i \in PatchesOf(k) : patches[i].kind # "Rectangle"}

TrailingOf(k) == {i \in PatchesOf(k) : patches[i].kind = "Rectangle"}

LastOf(S) == CHOOSE i \in S : \A j \in S : j <= i

TrackLast == residue_numbers[Len(residue_numbers)]

\* Segment k has exactly one connector of its own, right after its primitive,
\* at its end residue.
HasTrailingConnector(k) ==
  /\ TrailingOf(k) = {LastOf(PrimitivesOf(k)) + 1}
  /\ patches[LastOf(PrimitivesOf(k)) + 1] = [kind |-> "Rectangle",
                                             x |-> ss_segment_list[k][5] - 1,
                                             width |-> 1]

\* C9 as stated, on non-empty tracks: every emitted strand or helix primitive
\* is followed at once by exactly one connector at the end residue of its
\* segment, except that a helix whose end equals the last element of the track
\* has none.
C9_TrailingUnlessHelixAtLast ==
  residue_numbers # << >> =>
    \A k \in SegIndices :
      PrimitivesOf(k) # {} =>
        IF ss_segment_list[k][1] = "AlphaHelix" /\ ss_segment_list[k][5] = TrackLast
        THEN TrailingOf(k) = {}
        ELSE HasTrailingConnector(k)

\* C9, amended: on a non-empty track every emitted strand or helix primitive is
\* followed at once by exactly one connector at the end residue of its segment,
\* except that a helix whose end is not less than the last element of the track
\* (equal to it or beyond it) has none; a strand always has one, on any track.
C9_TrailingUnlessHelixNotBeforeLast ==
  \A k \in SegIndices :
    PrimitivesOf(k) # {} =>
      IF ss_segment_list[k][1] = "Strand" THEN HasTrailingConnector(k)
      ELSE residue_numbers # << >> =>
             IF ss_segment_list[k][5] < TrackLast
             THEN HasTrailingConnector(k)
             ELSE TrailingOf(k) = {}

\* A helix 1..2 with its connector, then a helix 2..3 that ends at the last
\* residue of track 1, 2, 3 and has none.
C9_Witness ==
  /\ LayoutCompleted
  /\ residue_numbers = <<1, 2, 3>>
  /\ ss_segment_list = << <<"AlphaHelix", "GLY", 1, "LYS", 2>>,
                          <<"AlphaHelix", "GLY", 2, "LYS", 3>> >>
  /\ Cardinality(PrimitivesOf(1)) = 2
  /\ Cardinality(TrailingOf(1)) = 1
  /\ Cardinality(PrimitivesOf(2)) = 2
  /\ TrailingOf(2) = {}

----------------------------------------------------------------------------
(* C10 *)

\* The residues the connectors of the final loop were emitted for, in order.
UnassignedResidues ==
  LET S == PatchesOf(0)
      first == CHOOSE i \in S : \A j \in S : i <= j
  IN  IF S = {} THEN << >>
      ELSE [n \in 1..Cardinality(S) |-> patch_origin[first + n - 1].res]

\* C10: the patches of the segments come in the order of the segment list, every
\* processed Strand with its own arrow (nothing sorted, nothing merged), the
\* primitive of a segment before its trailing connector, and the connectors of
\* the residues left uncovered after all of them, in track order.
C10_OutputOrder ==
  /\ Len(patch_origin) = Len(patches)
  /\ \A i, j \in 1..Len(patches) :
       i < j =>
         /\ patch_origin[i].seg = 0 => patch_origin[j].seg = 0
         /\ patch_origin[j].seg # 0 => patch_origin[i].seg <= patch_origin[j].seg
         /\ (patch_origin[i].seg = patch_origin[j].seg /\ patch_origin[i].seg # 0
               /\ patches[i].kind = "Rectangle") => patches[j].kind = "Rectangle"
  /\ \A k \in SegIndices :
       /\ \A i \in PatchesOf(k) :
            /\ patches[i].kind =
                 IF patches[i].kind = "Rectangle" THEN "Rectangle"
                 ELSE IF ss_segment_list[k][1] = "Strand" THEN "FancyArrow" ELSE "Arc"
            /\ patches[i].kind = "Rectangle" => patches[i].x + 1 = ss_segment_list[k][5]
            /\ patches[i].kind = "FancyArrow" => patches[i].x + 1 = ss_segment_list[k][3]
       /\ (k < x /\ ss_segment_list[k][1] = "Strand") =>
            Cardinality(PrimitivesOf(k)) = 1
       /\ ~Recognized(ss_segment_list[k]) => PatchesOf(k) = {}
  /\ \A i \in PatchesOf(0) :
       /\ patches[i].kind = "Rectangle"
       /\ patches[i].x + 1 = UnassignedStart(patch_origin[i].res, residue_numbers[1])
  /\ IsSubseq(UnassignedResidues, residue_numbers)
  /\ LayoutCompleted => Len(UnassignedResidues) = Len(residues_without_ss_assignment)

\* Strand 3..3 listed before strand 1..2 on track 1, 2, 3: the arrow at 3 comes
\* first, and the connectors of residues 2 and 3 come last, in track order.
C10_Witness ==
  /\ LayoutCompleted
  /\ residue_numbers = <<1, 2, 3>>
  /\ ss_segment_list = << <<"Strand", "GLY", 3, "LYS", 3>>,
                          <<"Strand", "GLY", 1, "LYS", 2>> >>
  /\ Len(patches) = 6
  /\ patches[1].kind = "FancyArrow" /\ patches[1].x = 2
  /\ patches[3].kind = "FancyArrow" /\ patches[3].x = 0
  /\ UnassignedResidues = <<2, 3>>

----------------------------------------------------------------------------
(* Vocabulary of the properties of the reader *)

\* The n-th smallest element of a set of numbers.
NthSmallest(S, n) == CHOOSE v \in S : Cardinality({w \in S : w < v}) = n - 1

\* The lines of the file whose first three characters are L, O, C.
LocIndices ==
  {i \in 1..Len(stride_lines) :
     /\ Len(stride_lines[i]) >= 3
     /\ stride_lines[i][1] = "L" /\ stride_lines[i][2] = "O" /\ stride_lines[i][3] = "C"}

\* The tokens of s: its maximal runs of characters other than the blank.
TokenStarts(s) == {i \in 1..Len(s) : s[i] # " " /\ (i = 1 \/ s[i-1] = " ")}

TokenFrom(s, i) ==
  SubSeq(s, i, CHOOSE j \in i..Len(s) :
                 /\ \A m \in i..j : s[m] # " "
                 /\ j = Len(s) \/ s[j+1] = " ")

BlankSeparatedTokens(s) ==
  [n \in 1..Cardinality(TokenStarts(s)) |-> TokenFrom(s, NthSmallest(TokenStarts(s), n))]

IsDecimal(token) ==
  /\ token # << >>
  /\ \A i \in 1..Len(token) :
       token[i] \in {"0", "1", "2", "3", "4", "5", "6", "7", "8", "9"}

\* The number a string of digits denotes: its last digit plus ten times the rest.
RECURSIVE DecimalOf(_)
DecimalOf(token) ==
  IF token = << >> THEN 0
  ELSE 10 * DecimalOf(SubSeq(token, 1, Len(token) - 1)) + DigitValue[token[Len(token)]]

TokensOfLine(i) == BlankSeparatedTokens(StripNoise(stride_lines[i]))

----------------------------------------------------------------------------
(* C7 *)

----------------------------------------------------------------------------
(* C8 *)

\* A LOC line as the reader expects it: five tokens after the removal of the
\* noise, the tokens 2 and 4 decimal integers.
WellFormed(i) ==
  /\ Len(TokensOfLine(i)) = 5
  /\ IsDecimal(TokensOfLine(i)[3])
  /\ IsDecimal(TokensOfLine(i)[5])

\* C8: the reader returns a segment list only when every LOC line is well
\* formed; a LOC line with too few or too many tokens, or with a token 2 or 4
\* that is no decimal integer, makes it fail.
C8_MalformedLineFails ==
  rpc = "returned" => \A i \in LocIndices : WellFormed(i)

====
